---- MODULE Spec2Model ----
(***************************************************************************)
(* Locomotion controller of src/src/main.js (the revision that starts at   *)
(* line 1319): the per-frame update `animate`, the asset-load callbacks    *)
(* and the key listeners.                                                  *)
(*                                                                         *)
(* Units.  One tick is 1/60 s.  Lengths are in 1/180 of a world unit and   *)
(* velocities in 1/3 of a world unit per second, so that the code's        *)
(*     verticalVelocity -= 20.0 * delta;                                   *)
(*     player.position.y += verticalVelocity * delta;                      *)
(* is exact in integers: with delta = k ticks, v' = v - k, y' = y + v'*k.  *)
(*                                                                         *)
(* Terrain.  The collision mesh is an asset, hence an input.  It is        *)
(* modelled as a periodic row of columns along the axis the camera looks   *)
(* along; a column holds solid intervals [lo, hi].  Rays hit front faces   *)
(* only (THREE.Raycaster culls the back faces of single-sided materials):  *)
(* a downward ray hits the tops, an upward ray the undersides and a        *)
(* horizontal ray the side of a solid of the next column.  Positions are   *)
(* kept modulo the period of the terrain.                                  *)
(*                                                                         *)
(* Input.  Keys w, shift and space are modelled; a, s, d and the joystick  *)
(* stay released and the mouse is not moved, so the target facing is the   *)
(* camera heading.  Frames that have to turn the player use the delta for  *)
(* which the slerp factor 10*delta is exactly 1.  The player stays outside *)
(* the bounds of the river, so moveSpeed is not scaled by the flow.        *)
(***************************************************************************)
EXTENDS Integers, FiniteSets, Sequences, TLC

VARIABLES terrain, playerLoaded, clips, activeAction, px, py, yaw,
          verticalVelocity, isGrounded, lastGroundHeight, keys, isLocked,
          camX, camY, last, spaceFresh, grav, playing, snd, asset, delta, river, foam, mist, wave,
          jumpEnded, waterfalls

vars == <<terrain, playerLoaded, clips, activeAction, px, py, yaw,
          verticalVelocity, isGrounded, lastGroundHeight, keys, isLocked,
          camX, camY, last, spaceFresh, grav, playing, snd, asset, delta, river,
          foam, mist, wave, jumpEnded, waterfalls>>

\* what the session is run with: the terrain asset, the frame duration and
\* riverParams, which only the GUI changes; wave holds the arguments and the
\* results of two calls of getWaveHeight
env == <<asset, delta, river, wave, waterfalls>>

\* the particle populations of the water
water == <<foam, mist>>

(***************************************************************************)
(* Program constants, in model units                                       *)
(***************************************************************************)
JumpForce == 30
RayStartHeight == 108
KneeHeight == 90
NeckHeight == 180
HeadHeight == 306
WallDist == 144
CeilStart == 36
CeilDist == 324
HeadRoom == 342
MaxStepHeight == 108
SnapEps == 18
HighRayY == 36000
EscapeY == -1800
WalkSpeed == 12
RunSpeed == 30
CamDist == 630
CamHeight == 270
CamMinBelowGround == 54
SpawnYaw == 2
CamYaw == 0
WalkStepInterval == 30
RunStepInterval == 18
Pi == 314
FlowBuffer == 90
SplashReach == 450
InitCamX == 270
InitCamY == 90

(***************************************************************************)
(* Bounds of the model                                                     *)
(***************************************************************************)
\* frames stop once the player has fallen this far below the origin
MaxDepth == 2400

\* the spawn point in the frame of the model terrain: the asset is an input,
\* and so is where character.position.set(...) lies on it; here half-way
\* along the third column, 0.2 above the level of the origin
SpawnX == 90
SpawnY == 36

\* values of clock.getDelta() in ticks: 0.05 s and 0.1 s
Deltas == {3, 6}
\* the delta with 10.0 * delta = 1
SnapDelta == 6

(***************************************************************************)
(* Terrain handle and ray probes                                           *)
(***************************************************************************)
\* columns are 0.2 world units wide
ColW == 2 * SnapEps

\* a solid that reaches down from hi without an underside
Ground(h) == [lo |-> h, hi |-> h, open |-> TRUE]
\* a solid between lo and hi
Slab(l, h) == [lo |-> l, hi |-> h, open |-> FALSE]

Rep(n, col) == [i \in 1..n |-> col]

\* flat ground under the river
RiverWorld == Rep(6, {Ground(0)})
\* flat ground
FlatWorld == << {Ground(0)} >>
\* a 0.2 step up, then a thin platform 0.65 above the ground, open sky
StepWorld == Rep(2, {Ground(0)}) \o Rep(1, {Ground(36)})
             \o Rep(1, {Ground(36), Slab(144, 153)}) \o Rep(1, {Ground(36)})
\* the same platform approached from under a roof 3.2 above the ground
RoofWorld == Rep(3, {Ground(0), Slab(576, 594)})
             \o Rep(1, {Ground(0), Slab(108, 117)}) \o Rep(1, {Ground(0)})
\* a wall 1.0 high behind 1.0 of flat ground
WallWorld == Rep(5, {Ground(0)}) \o Rep(1, {Ground(180)})
\* the world ends: columns without geometry, then a floor below -10
EdgeWorld == Rep(3, {Ground(0)}) \o Rep(1, {}) \o Rep(1, {Ground(-1900)})

Worlds == << FlatWorld, StepWorld, RoofWorld, WallWorld, EdgeWorld,
            RiverWorld >>

\* the terrain asset and frame duration of a session of PlaySpec
Sessions == { <<2, 3>>, <<3, 3>>, <<4, 6>>, <<5, 6>> }

Columns(w) == IF w \in DOMAIN Worlds THEN Len(Worlds[w]) ELSE 1
Period(w) == Columns(w) * ColW
Wrap(w, x) == x % Period(w)
Column(w, c) == IF w \in DOMAIN Worlds THEN Worlds[w][(c % Columns(w)) + 1] ELSE {}
Solids(w, x) == Column(w, Wrap(w, x) \div ColW)

SetMax(S) == CHOOSE m \in S : \A n \in S : n <= m
SetMin(S) == CHOOSE m \in S : \A n \in S : m <= n

Miss == [hit |-> FALSE, y |-> 0, distance |-> 0]
Hit(h, d) == [hit |-> TRUE, y |-> h, distance |-> d]

\* intersects[0] of a downward ray from height y that meets surfaces at tops
TopHit(tops, y) == IF tops = {} THEN Miss ELSE Hit(SetMax(tops), y - SetMax(tops))
\* intersects[0] of an upward ray from height y that meets surfaces at unders
UnderHit(unders, y) == IF unders = {} THEN Miss ELSE Hit(SetMin(unders), SetMin(unders) - y)

\* raycaster.set(origin, downVector); intersectObject(terrain)[0]
DownProbe(w, x, y) == TopHit({s.hi : s \in {t \in Solids(w, x) : t.hi <= y}}, y)

\* raycaster.set(origin, upVector); intersectObject(terrain)[0]
UpProbe(w, x, y) ==
    UnderHit({s.lo : s \in {t \in Solids(w, x) : ~t.open /\ t.lo >= y}}, y)

Inside(S, y) == \E s \in S : (s.open \/ s.lo <= y) /\ y <= s.hi

\* intersects[0] of a horizontal ray that enters solids at the near sides of
\* the columns faces ahead of column offset off
FaceHit(faces, off, y, dir) ==
    IF dir = 0 \/ faces = {} THEN Miss
    ELSE IF dir > 0 THEN Hit(y, SetMin(faces) * ColW - off)
    ELSE Hit(y, (SetMin(faces) - 1) * ColW + off)

\* raycaster.set(origin, worldMoveDir); intersectObject(terrain)[0],
\* dir the component of worldMoveDir along the row of columns
WallProbe(w, x, y, dir) ==
    FaceHit({i \in 1..Columns(w) :
               /\ Inside(Column(w, Wrap(w, x) \div ColW + dir * i), y)
               /\ ~Inside(Column(w, Wrap(w, x) \div ColW + dir * (i - 1)), y)},
            Wrap(w, x) % ColW, y, dir)

(***************************************************************************)
(* Helpers of the per-frame update                                         *)
(***************************************************************************)
ClipNames == {"idle", "walk", "run", "jump"}
NoAction == "none"
KeyNames == {"w", "shift", "space"}

\* actions[name]: the clip handle, null until the clip has loaded
ActionOf(cl, name) == IF name \in cl THEN name ELSE NoAction

IsMoving(k) == k.w
IsRunning(k) == k.shift /\ IsMoving(k)

\* inputAngle = atan2(x, z) in quarter turns; with w alone x = 0, z = 1
InputYaw(k) == 0
TargetYaw(k) == (CamYaw + InputYaw(k)) % 4

\* player.quaternion.slerp(targetQuaternion, 10.0 * delta), for the deltas
\* that Turns admits
Slerp(q, target, dt) == IF q # target /\ dt = SnapDelta THEN target ELSE q
\* the slerp leaves the facing on the grid of quarter turns
Turns(q, target, dt) == q = target \/ dt = SnapDelta

\* the component of worldMoveDir along the row of columns, cos(yaw)
Forward(q) == CASE q = 0 -> 1 [] q = 2 -> -1 [] OTHER -> 0

JumpTriggered(k, grounded) == k.space /\ grounded

\* activeAction.fadeOut(0.1) on a null activeAction
JumpThrows(cl, act) == "jump" \in cl /\ act = NoAction

GravityVelocity(v, dt) == v - dt
GravityPosition(y, v, dt) == y + v * dt

MoveSpeed(k) == IF IsMoving(k) THEN (IF IsRunning(k) THEN RunSpeed ELSE WalkSpeed)
                ELSE 0

Abs(n) == IF n < 0 THEN 0 - n ELSE n

\* RIVER PHYSICS: the player, at 0 across the row and x along it, is within
\* the river bounds and its feet are below the water level plus the buffer
InRiver(rv, x, y) ==
    /\ Abs(0 - rv.waterX) * 2 < rv.width
    /\ Abs(x - rv.waterZ) * 2 < rv.length
    /\ y < rv.waterHeight + FlowBuffer

\* worldMoveDir.dot(flowDir), both directions in quarter turns
Alignment(q, rv) == Forward((q - rv.flowAngle) % 4)

\* a river that speeds the player up whichever way it moves
FlowFactorBoost(rv, x, y, q) == IF InRiver(rv, x, y) THEN 3 ELSE 2

\* twice the factor moveSpeed is multiplied by: 1.0 + alignment * 0.5
FlowFactor(rv, x, y, q) == IF InRiver(rv, x, y) THEN 2 + Alignment(q, rv) ELSE 2

\* moveSpeed * delta, the length of addScaledVector
Travel(k, rv, x, y, q, dt) == (MoveSpeed(k) * FlowFactor(rv, x, y, q) * dt) \div 2

TargetActionName(k, grounded, act, cl) ==
    IF ~grounded /\ act = ActionOf(cl, "jump") THEN "jump"
    ELSE IF IsMoving(k) THEN (IF IsRunning(k) THEN "run" ELSE "walk")
    ELSE "idle"

\* a wall ray that stops the player at any distance
NearAnywhere(p) == p.hit

Near(p) == p.hit /\ p.distance < WallDist

\* knee, neck and head rays along worldMoveDir
Blocked(w, x, y, dir) ==
    \/ Near(WallProbe(w, x, y + KneeHeight, dir))
    \/ Near(WallProbe(w, x, y + NeckHeight, dir))
    \/ Near(WallProbe(w, x, y + HeadHeight, dir))

\* the active action after the crossfade block
Crossfade(name, grounded, act, cl) ==
    IF name # "jump" /\ "jump" \in cl /\ act = ActionOf(cl, "jump") /\ ~grounded
    THEN act
    ELSE IF ActionOf(cl, name) # NoAction /\ act # ActionOf(cl, name)
         THEN ActionOf(cl, name) ELSE act

\* the actions started and not faded out, after the jump block has played
\* the jump clip: activeAction.fadeOut(0.1); actions.jump.reset().fadeIn(0.1).play()
JumpPlay(pl, cl, act) ==
    IF "jump" \in cl THEN (pl \ {act}) \cup {"jump"} ELSE pl

\* the actions started and not faded out, after the crossfade block
CrossfadePlay(pl, name, grounded, act, cl) ==
    IF name # "jump" /\ "jump" \in cl /\ act = ActionOf(cl, "jump") /\ ~grounded
    THEN pl
    ELSE IF ActionOf(cl, name) # NoAction /\ act # ActionOf(cl, name)
         THEN (pl \ {act}) \cup {ActionOf(cl, name)} ELSE pl

\* y and verticalVelocity after the ceiling check, c the upward hit
CapUnder(c, y, v) ==
    IF c.hit /\ c.distance < CeilDist /\ y > c.y - HeadRoom
    THEN [y |-> c.y - HeadRoom, v |-> IF v > 0 THEN 0 ELSE v]
    ELSE [y |-> y, v |-> v]

CeilingCap(w, x, y, v) == CapUnder(UpProbe(w, x, y + CeilStart), y, v)

\* the X/Z revert condition
ShouldRevert(heightDiff, y, newGroundHeight, v, grounded) ==
    /\ heightDiff > MaxStepHeight
    /\ ~(y > newGroundHeight)
    /\ ~(v > 0)
    /\ ~(~grounded)

\* physics landing logic against the hit wall of the ray cast from y = 200
LandOn(wall, y, v, grounded) ==
    IF wall.hit
    THEN IF y <= wall.y + SnapEps /\ v <= 0
         THEN [y |-> wall.y + SnapEps, v |-> 0, g |-> TRUE]
         ELSE [y |-> y, v |-> v, g |-> FALSE]
    ELSE [y |-> y, v |-> v, g |-> grounded]

RevertLanding(w, x, y, v, grounded) ==
    LandOn(DownProbe(w, x, HighRayY), y, v, grounded)

\* a landing snap that forgets to set the grounded flag
LandingKeepsFlag(newGroundHeight, y, v, grounded) ==
    IF y <= newGroundHeight + SnapEps
    THEN IF v <= 0
         THEN [y |-> newGroundHeight + SnapEps, v |-> 0, g |-> grounded]
         ELSE [y |-> y, v |-> v, g |-> grounded]
    ELSE [y |-> y, v |-> v, g |-> FALSE]

\* a landing snap that does not look at the vertical velocity
LandingAnyVelocity(newGroundHeight, y, v, grounded) ==
    IF y <= newGroundHeight + SnapEps
    THEN [y |-> newGroundHeight + SnapEps, v |-> 0, g |-> TRUE]
    ELSE [y |-> y, v |-> v, g |-> FALSE]

\* valid ground logic, no revert
Landing(newGroundHeight, y, v, grounded) ==
    IF y <= newGroundHeight + SnapEps
    THEN IF v <= 0
         THEN [y |-> newGroundHeight + SnapEps, v |-> 0, g |-> TRUE]
         ELSE [y |-> y, v |-> v, g |-> grounded]
    ELSE [y |-> y, v |-> v, g |-> FALSE]

\* emergency escape, inside the branch of a hit
Escape(newGroundHeight, r) ==
    IF r.y < EscapeY
    THEN [y |-> newGroundHeight + SnapEps, v |-> 0, g |-> TRUE]
    ELSE r

Max(a, b) == IF a > b THEN a ELSE b

(***************************************************************************)
(* The frame update `animate`                                              *)
(***************************************************************************)
NoKeys == [w |-> FALSE, shift |-> FALSE, space |-> FALSE]

\* the record of the frame that has just ended
NoFrame == [kind |-> "none", dt |-> 0, keys |-> NoKeys, probed |-> FALSE,
            jumped |-> FALSE, fresh |-> FALSE, hasJump |-> FALSE,
            jumpV |-> 0, jumpG |-> FALSE, jumpAct |-> NoAction,
            blocked |-> FALSE,
            preX |-> 0, preY |-> 0, preV |-> 0, preG |-> FALSE,
            preAct |-> NoAction, preYaw |-> 0, oldGround |-> 0,
            moveX |-> 0, moveY |-> 0, moveV |-> 0, capY |-> 0, capV |-> 0,
            hit |-> FALSE, newGround |-> 0, reverted |-> FALSE]

Pre(kind) ==
    [NoFrame EXCEPT !.kind = kind, !.dt = delta, !.keys = keys,
                    !.hasJump = "jump" \in clips,
                    !.preX = px, !.preY = py, !.preV = verticalVelocity,
                    !.preG = isGrounded, !.preAct = activeAction,
                    !.preYaw = yaw,
                    !.jumpV = verticalVelocity, !.jumpG = isGrounded,
                    !.jumpAct = activeAction]

\* a controller that waits for the player only
ControllerRunsPlayerOnly == playerLoaded

\* if (player && terrain)
ControllerRuns == playerLoaded /\ terrain # 0

\* if (controls.isLocked || (gameActive && isMobile)), on a desktop
Controlled == isLocked

\* let oldGroundHeight = player.position.y; if (intersects.length > 0) ...
OldGroundHeight(old, y) == IF old.hit THEN old.y ELSE y

\* the jump block; threw: activeAction.fadeOut raised a TypeError
JumpStep ==
    IF JumpTriggered(keys, isGrounded)
    THEN [v |-> JumpForce, g |-> FALSE, jumped |-> TRUE,
          threw |-> JumpThrows(clips, activeAction),
          act |-> IF "jump" \in clips /\ ~JumpThrows(clips, activeAction)
                  THEN "jump" ELSE activeAction]
    ELSE [v |-> verticalVelocity, g |-> isGrounded, jumped |-> FALSE,
          threw |-> FALSE, act |-> activeAction]

\* movement, crossfade and camera, at the velocity v and height y that the
\* gravity step produced
MoveStep(dt, j, q, v, y, blocked) ==
    [x |-> IF IsMoving(keys) /\ ~blocked
           THEN Wrap(terrain, px + Forward(q) * Travel(keys, river, px, y, q, dt))
           ELSE px,
     y |-> y, v |-> v, g |-> j.g, jv |-> j.v, jact |-> j.act,
     jumped |-> j.jumped, blocked |-> blocked,
     act |-> Crossfade(TargetActionName(keys, j.g, j.act, clips), j.g, j.act, clips),
     camX |-> (IF IsMoving(keys) /\ ~blocked
               THEN Wrap(terrain, px + Forward(q) * Travel(keys, river, px, y, q, dt))
               ELSE px)
              - CamDist,
     camY |-> Max(y + CamHeight, y - CamMinBelowGround)]

GravityStep(dt, j, q, v) ==
    MoveStep(dt, j, q, v, GravityPosition(py, v, dt),
             IsMoving(keys) /\
               Blocked(terrain, px, GravityPosition(py, v, dt), Forward(q)))

\* the control block after the jump block
ControlStep(dt, j, q) == GravityStep(dt, j, q, GravityVelocity(j.v, dt))

\* without pointer lock the control block is skipped
NoControl ==
    [x |-> px, y |-> py, v |-> verticalVelocity, g |-> isGrounded,
     jv |-> verticalVelocity, jact |-> activeAction, jumped |-> FALSE,
     blocked |-> FALSE, act |-> activeAction, camX |-> camX, camY |-> camY]

\* a ground resolution that treats a missing hit as the last known ground
GroundStepSnaps(c, oldX, oldGroundHeight, ground, cap, revert) ==
    [x |-> IF revert THEN oldX ELSE c.x,
     f |-> IF ~ground.hit
           THEN Landing(lastGroundHeight, cap.y, cap.v, c.g)
           ELSE IF revert
           THEN Escape(ground.y, RevertLanding(terrain, oldX, cap.y, cap.v, c.g))
           ELSE Escape(ground.y, Landing(ground.y, cap.y, cap.v, c.g)),
     hit |-> ground.hit, newGround |-> ground.y, reverted |-> revert,
     capY |-> cap.y, capV |-> cap.v,
     lastGround |-> IF ground.hit THEN ground.y ELSE lastGroundHeight]

\* the ground resolution, given the post-move hit and the ceiling cap
GroundStep(c, oldX, oldGroundHeight, ground, cap, revert) ==
    [x |-> IF revert THEN oldX ELSE c.x,
     f |-> IF ~ground.hit THEN [y |-> cap.y, v |-> cap.v, g |-> c.g]
           ELSE IF revert
           THEN Escape(ground.y, RevertLanding(terrain, oldX, cap.y, cap.v, c.g))
           ELSE Escape(ground.y, Landing(ground.y, cap.y, cap.v, c.g)),
     hit |-> ground.hit, newGround |-> ground.y, reverted |-> revert,
     capY |-> cap.y, capV |-> cap.v,
     lastGround |-> IF ground.hit THEN ground.y ELSE lastGroundHeight]

RevertStep(c, oldX, oldGroundHeight, ground, cap) ==
    GroundStep(c, oldX, oldGroundHeight, ground, cap,
               ground.hit /\ ShouldRevert(ground.y - oldGroundHeight, cap.y,
                                          ground.y, cap.v, c.g))

\* post-move probe, ceiling check and ground resolution
ResolveStep(c, oldX, oldGroundHeight) ==
    RevertStep(c, oldX, oldGroundHeight,
               DownProbe(terrain, c.x, c.y + RayStartHeight),
               CeilingCap(terrain, c.x, c.y, c.v))

\* a frame before the terrain and the player have both loaded
(***************************************************************************)
(* Water particles.  Foam and mist positions are kept on a grid of 0.05    *)
(* (so 0.2 is 4, 0.5 is 10, 2.5 is 50), lives in thousandths, the flow     *)
(* speed in tenths.  Math.random() is drawn from Rand, in hundredths, and  *)
(* a random angle from Angles, as (cos, sin) in fifths.  The noise of the  *)
(* foam (at most 0.02) and the sideways spread of the mist (at most 0.025) *)
(* are below half a grid step and round to no displacement.  The y entry   *)
(* of a foam particle, waterH + 0.05, is kept relative to the wave         *)
(* surface at the particle.                                                *)
(***************************************************************************)
Rand == {0, 95}
Angles == { <<5, 0>>, <<0, 5>>, <<-5, 0>>, <<3, 4>>, <<-4, -3>> }

\* a length of the controller (1/180) on the particle grid (1/20)
ToFoam(n) == n \div (180 \div 20)

\* rocks: the foam markers at (-0.48, -1.48) and (4.56, 18.45), radius 0.5,
\* relative to the water at (2, -1.2)
Rocks == << [x |-> -50, z |-> -6, radius |-> 10],
            [x |-> 51, z |-> 393, radius |-> 10] >>

NoParticles == [positions |-> << >>, lives |-> << >>, offsets |-> << >>]

\* Math.random() * n
Scaled(r, n) == (r * n) \div 100

\* (cx + cos(a) * r, cz + sin(a) * r) for the angles a
RingPoints(cx, cz, r) ==
    { <<cx + (a[1] * r) \div 5, cz + (a[2] * r) \div 5>> : a \in Angles }

\* foam thrown three radii away from a rock
RockPointsFar ==
    UNION { RingPoints(Rocks[k].x, Rocks[k].z,
                       3 * Rocks[k].radius + Scaled(r, 10)) :
              k \in DOMAIN Rocks, r \in Rand }

\* near a rock: r = rock.radius + random * 0.5
RockPoints ==
    UNION { RingPoints(Rocks[k].x, Rocks[k].z, Rocks[k].radius + Scaled(r, 10)) :
              k \in DOMAIN Rocks, r \in Rand }

\* on the left or right edge of the water
EdgePoints(rv) ==
    { << (ToFoam(rv.width) \div 2 - 4) * side + Scaled(r1, 10) * (0 - side),
         Scaled(r2, ToFoam(rv.length)) - ToFoam(rv.length) \div 2 >> :
        side \in {1, -1}, r1 \in Rand, r2 \in Rand }

\* the player is strictly within the water bounds, feet around water level
PlayerInWater(rv) ==
    /\ playerLoaded
    /\ Abs(0 - rv.waterX) * 2 < rv.width
    /\ Abs(px - rv.waterZ) * 2 < rv.length
    /\ Abs(py - rv.waterHeight) < SplashReach

\* a tight ring around the player: r = 0.3 + random * 0.5
SplashPoints(rv) ==
    IF PlayerInWater(rv)
    THEN UNION { RingPoints(ToFoam(0 - rv.waterX), ToFoam(px - rv.waterZ),
                            6 + Scaled(r, 10)) : r \in Rand }
    ELSE {}

SeedPoints(rv) == RockPoints \cup EdgePoints(rv)
RespawnPoints(rv) == SplashPoints(rv) \cup RockPoints \cup EdgePoints(rv)

\* the distance a foam particle is carried in a frame: 0.08 * speed
Drift(rv) == (rv.speed * 4) \div 25

\* one pass of the foam loop over a particle
FoamParticle(p, rv) ==
    IF p.life - rv.speed <= 0
    THEN { [x |-> q[1], z |-> q[2], life |-> 1000] : q \in RespawnPoints(rv) }
    ELSE { [x |-> p.x + Forward((rv.flowAngle + 3) % 4) * Drift(rv),
            z |-> p.z + Forward(rv.flowAngle) * Drift(rv),
            life |-> p.life - rv.speed] }

GetParticle(f, i) ==
    [x |-> f.positions[3 * i - 2], z |-> f.positions[3 * i], life |-> f.lives[i]]

PutParticle(f, i, q) ==
    [f EXCEPT !.positions = [@ EXCEPT ![3 * i - 2] = q.x, ![3 * i - 1] = 1,
                                      ![3 * i] = q.z],
              !.lives = [@ EXCEPT ![i] = q.life]]

\* updateWater, 2. UPDATE FOAM: the populations the loop can leave, from
\* index i on; an index beyond the arrays reads undefined and writes nothing
RECURSIVE FoamLoop(_, _, _)
FoamLoop(f, i, rv) ==
    IF i > rv.foamAmount THEN {f}
    ELSE IF i > Len(f.lives) THEN FoamLoop(f, i + 1, rv)
    ELSE UNION { FoamLoop(PutParticle(f, i, q), i + 1, rv) :
                   q \in FoamParticle(GetParticle(f, i), rv) }

\* createFoamSystem: count = riverParams.foamAmount particles, seeded
RECURSIVE FoamSeeds(_, _)
FoamSeeds(n, rv) ==
    IF n = 0 THEN {NoParticles}
    ELSE { [positions |-> f.positions \o <<q[1], 1, q[2]>>,
            lives |-> Append(f.lives, Scaled(r, 1000)),
            offsets |-> Append(f.offsets, 0)] :
             f \in FoamSeeds(n - 1, rv), q \in SeedPoints(rv), r \in Rand }

CreateFoamSystem(rv) == FoamSeeds(rv.foamAmount, rv)

\* a count change that keeps the foam system as it is
KeepFoamSystem(f, rv) == {f}

\* updateFoamCount: the foam system is removed and created again
UpdateFoamCount(f, rv) == CreateFoamSystem(rv)

\* a mist loop whose fade follows the flow speed, as the foam's does
MistParticleFlow(p, rv) ==
    IF p.life - rv.speed <= 0
    THEN { [p EXCEPT !.life = 1000] }
    ELSE { [p EXCEPT !.y = @ - 3, !.life = @ - rv.speed] }

\* one pass of the mist loop over a particle: lives[i] -= 0.015, respawn at
\* the top of either waterfall or fall by 0.15
MistParticle(p, rv) ==
    IF p.life - 15 <= 0
    THEN { [x |-> Scaled(r1, ToFoam(rv.width)) - ToFoam(rv.width) \div 2,
            y |-> Scaled(r2, 30) - 10,
            z |-> (ToFoam(rv.length) \div 2) * side + Scaled(r3, 60) - 30,
            life |-> 1000] :
             side \in {1, -1}, r1 \in Rand, r2 \in Rand, r3 \in Rand }
    ELSE { [p EXCEPT !.y = @ - 3, !.life = @ - 15] }

GetMist(m, i) ==
    [x |-> m.positions[3 * i - 2], y |-> m.positions[3 * i - 1],
     z |-> m.positions[3 * i], life |-> m.lives[i]]

PutMist(m, i, q) ==
    [m EXCEPT !.positions = [@ EXCEPT ![3 * i - 2] = q.x, ![3 * i - 1] = q.y,
                                      ![3 * i] = q.z],
              !.lives = [@ EXCEPT ![i] = q.life]]

\* updateWater, 3. UPDATE MIST: count = positions.length / 3
RECURSIVE MistLoop(_, _, _)
MistLoop(m, i, rv) ==
    IF i > Len(m.positions) \div 3 THEN {m}
    ELSE UNION { MistLoop(PutMist(m, i, q), i + 1, rv) :
                   q \in MistParticle(GetMist(m, i), rv) }

\* createMistSystem for a population of n: hidden at y = -500
RECURSIVE MistSeeds(_)
MistSeeds(n) ==
    IF n = 0 THEN {NoParticles}
    ELSE { [positions |-> m.positions \o <<0, 0 - 10000, 0>>,
            lives |-> Append(m.lives, Scaled(r, 1000)),
            offsets |-> Append(m.offsets, 0)] :
             m \in MistSeeds(n - 1), r \in Rand }

\* updateWater: the foam and the mist of the frame
UpdateWater ==
    /\ foam' \in FoamLoop(foam, 1, river)
    /\ mist' \in MistLoop(mist, 1, river)

\* lastStepTime = 0 while performance.now() is far beyond any interval
MaxSince == WalkStepInterval + 1
NoSound == [buffer |-> FALSE, since |-> MaxSince, started |-> FALSE]
Sound == [NoSound EXCEPT !.buffer = TRUE]

\* FOOTSTEP LOGIC, run by every frame before the controller: buffer is
\* footstepSound.buffer being set, since the time from lastStepTime to the
\* previous frame (kept up to MaxSince), started whether this frame called
\* footstepSound.play()
StepDue(s, d) ==
    /\ playerLoaded /\ s.buffer /\ isGrounded
    /\ IsMoving(keys)
    /\ s.since + d > (IF keys.shift THEN RunStepInterval ELSE WalkStepInterval)

Footstep(s, d) ==
    IF StepDue(s, d)
    THEN [s EXCEPT !.since = 0, !.started = TRUE]
    ELSE [s EXCEPT !.since = IF s.since + d > MaxSince THEN MaxSince
                              ELSE s.since + d,
                   !.started = FALSE]

FrameSkip ==
    /\ UpdateWater
    /\ ~ControllerRuns
    /\ last' = Pre("skip")
    /\ snd' = Footstep(snd, delta)
    /\ UNCHANGED <<terrain, playerLoaded, clips, activeAction, px, py, yaw,
                   verticalVelocity, isGrounded, lastGroundHeight, keys,
                   isLocked, camX, camY, spaceFresh, grav, playing, jumpEnded, env>>

\* a frame whose jump block throws: the rest of animate does not run
FrameThrow ==
    /\ UpdateWater
    /\ ControllerRuns /\ Controlled
    /\ py >= -MaxDepth
    /\ Turns(yaw, TargetYaw(keys), delta)
    /\ JumpStep.threw
    /\ yaw' = Slerp(yaw, TargetYaw(keys), delta)
    /\ verticalVelocity' = JumpStep.v
    /\ isGrounded' = JumpStep.g
    /\ spaceFresh' = FALSE
    /\ snd' = Footstep(snd, delta)
    /\ last' = [Pre("throw") EXCEPT !.probed = TRUE, !.jumped = TRUE,
                  !.fresh = spaceFresh, !.jumpV = JumpStep.v,
                  !.jumpG = JumpStep.g, !.jumpAct = JumpStep.act]
    /\ UNCHANGED <<terrain, playerLoaded, clips, activeAction, px, py,
                   lastGroundHeight, keys, isLocked, camX, camY, grav, playing, jumpEnded,
                   env>>

\* a frame of the controller
FrameRun ==
    /\ UpdateWater
    /\ ControllerRuns
    /\ py >= -MaxDepth
    /\ ~Controlled \/ Turns(yaw, TargetYaw(keys), delta)
    /\ ~(Controlled /\ JumpStep.threw)
    /\ \E old \in {DownProbe(terrain, px, py + RayStartHeight)} :
       \E q \in {IF Controlled THEN Slerp(yaw, TargetYaw(keys), delta) ELSE yaw} :
       \E c \in {IF Controlled THEN ControlStep(delta, JumpStep, q) ELSE NoControl} :
       \E r \in {ResolveStep(c, px, OldGroundHeight(old, py))} :
           /\ yaw' = q
           /\ px' = r.x
           /\ py' = r.f.y
           /\ verticalVelocity' = r.f.v
           /\ isGrounded' = r.f.g
           /\ lastGroundHeight' = r.lastGround
           /\ activeAction' = c.act
           /\ camX' = c.camX
           /\ camY' = Max(c.camY, r.lastGround - CamMinBelowGround)
           /\ spaceFresh' = IF c.jumped THEN FALSE ELSE spaceFresh
           /\ snd' = Footstep(snd, delta)
           /\ jumpEnded' = IF c.jumped /\ "jump" \in clips THEN FALSE
                           ELSE jumpEnded
           /\ playing' = IF Controlled
                         THEN CrossfadePlay(
                                  IF c.jumped
                                  THEN JumpPlay(playing, clips, activeAction)
                                  ELSE playing,
                                  TargetActionName(keys, c.g, c.jact, clips),
                                  c.g, c.jact, clips)
                         ELSE playing
           /\ last' = [Pre(IF Controlled THEN "ctl" ELSE "free") EXCEPT
                         !.probed = TRUE,
                         !.jumped = c.jumped,
                         !.fresh = spaceFresh,
                         !.jumpV = c.jv, !.jumpG = c.g, !.jumpAct = c.jact,
                         !.blocked = c.blocked,
                         !.oldGround = OldGroundHeight(old, py),
                         !.moveX = c.x, !.moveY = c.y, !.moveV = c.v,
                         !.capY = r.capY, !.capV = r.capV,
                         !.hit = r.hit, !.newGround = r.newGround,
                         !.reverted = r.reverted]
    /\ UNCHANGED <<terrain, playerLoaded, clips, keys, isLocked, grav, env>>

(***************************************************************************)
(* Asset-load callbacks, key listeners, pointer lock                       *)
(***************************************************************************)
\* gltfLoader callback: terrain = model
TerrainLoaded ==
    /\ terrain = 0
    /\ terrain' = asset
    /\ last' = NoFrame
    /\ UNCHANGED <<playerLoaded, clips, activeAction, px, py, yaw,
                   verticalVelocity, isGrounded, lastGroundHeight, keys,
                   isLocked, camX, camY, spaceFresh, grav, playing, jumpEnded, snd, water, env>>

\* fbxLoader callback: player = character, camera placed behind the spawn
CharacterLoaded ==
    /\ ~playerLoaded
    /\ playerLoaded' = TRUE
    /\ px' = SpawnX /\ py' = SpawnY /\ yaw' = SpawnYaw
    /\ camX' = SpawnX - CamDist /\ camY' = SpawnY + CamHeight
    /\ last' = NoFrame
    /\ UNCHANGED <<terrain, clips, activeAction, verticalVelocity, isGrounded,
                   lastGroundHeight, keys, isLocked, spaceFresh, grav, playing, jumpEnded, snd, water, env>>

\* loadAnim callback
AnimLoaded(name) ==
    /\ playerLoaded /\ name \notin clips
    /\ clips' = clips \cup {name}
    /\ activeAction' = IF name = "idle" THEN "idle" ELSE activeAction
    /\ playing' = IF name = "idle" THEN playing \cup {"idle"} ELSE playing
    /\ jumpEnded' = jumpEnded
    /\ last' = NoFrame
    /\ UNCHANGED <<terrain, playerLoaded, px, py, yaw, verticalVelocity,
                   isGrounded, lastGroundHeight, keys, isLocked, camX, camY,
                   spaceFresh, grav, snd, water, env>>

\* keydown listener (a key that is already down repeats without effect)
KeyDown(k) ==
    /\ ~keys[k]
    /\ keys' = [keys EXCEPT ![k] = TRUE]
    /\ spaceFresh' = IF k = "space" THEN TRUE ELSE spaceFresh
    /\ last' = NoFrame
    /\ UNCHANGED <<terrain, playerLoaded, clips, activeAction, px, py, yaw,
                   verticalVelocity, isGrounded, lastGroundHeight, isLocked,
                   camX, camY, grav, playing, jumpEnded, snd, water, env>>

\* keyup listener
KeyUp(k) ==
    /\ keys[k]
    /\ keys' = [keys EXCEPT ![k] = FALSE]
    /\ last' = NoFrame
    /\ UNCHANGED <<terrain, playerLoaded, clips, activeAction, px, py, yaw,
                   verticalVelocity, isGrounded, lastGroundHeight, isLocked,
                   camX, camY, spaceFresh, grav, playing, jumpEnded, snd, water, env>>

\* controls.lock() on click
Lock ==
    /\ ~isLocked /\ isLocked' = TRUE
    /\ last' = NoFrame
    /\ UNCHANGED <<terrain, playerLoaded, clips, activeAction, px, py, yaw,
                   verticalVelocity, isGrounded, lastGroundHeight, keys,
                   camX, camY, spaceFresh, grav, playing, jumpEnded, snd, water, env>>

\* the browser releases the pointer lock (Escape)
Unlock ==
    /\ isLocked /\ isLocked' = FALSE
    /\ last' = NoFrame
    /\ UNCHANGED <<terrain, playerLoaded, clips, activeAction, px, py, yaw,
                   verticalVelocity, isGrounded, lastGroundHeight, keys,
                   camX, camY, spaceFresh, grav, playing, jumpEnded, snd, water, env>>

\* riverParams as configured (width 11.5, length 100, waterHeight 30.5,
\* flowAngle 0, speed 0.7, waveHeight 0.33) with the foam count set to 0, seen from a row
\* that runs beside the river
Beside == [waterX |-> 2070, waterZ |-> 0, width |-> 2070, length |-> 18000,
           waterHeight |-> 5490, flowAngle |-> 0, speed |-> 7,
           waveHeight |-> 33, foamAmount |-> 0,
       waterfallDrop |-> 5400]

(***************************************************************************)
(* The wave field.  Phases are in hundredths of a radian, sines and        *)
(* heights in thousandths, time in tenths of a second, waveHeight in       *)
(* hundredths.  Math.sin is computed by Bhaskara's rational approximation, *)
(* which is within 0.002 of the sine.                                      *)
(***************************************************************************)
HalfSine(p) == (16000 * p * (Pi - p)) \div (5 * Pi * Pi - 4 * p * (Pi - p))

Sin(p) == IF p % (2 * Pi) <= Pi THEN HalfSine(p % (2 * Pi))
          ELSE 0 - HalfSine((p % (2 * Pi)) - Pi)

\* the three sines of getWaveHeight, weighted 0.5, 0.3 and 0.1; ts is
\* time * riverParams.speed
WaveSum(flowDist, crossDist, ts) ==
    ( 5 * Sin(4 * flowDist + ts)
    + 3 * Sin((15 * flowDist) \div 2 + 6 * crossDist + (12 * ts) \div 10)
    + Sin(15 * flowDist + 2 * ts) ) \div 10

\* getWaveHeight reads riverParams.speed and riverParams.waveHeight
GetWaveHeight(x, z, time, dirX, dirY) ==
    ( WaveSum(x * dirX + z * dirY, x * dirY - z * dirX, time * river.speed)
      * river.waveHeight ) \div 100

NoWave == [x |-> 0, z |-> 0, time |-> 0, dir |-> 0, calls |-> 0,
           h1 |-> 0, h2 |-> 0]

\* a call of getWaveHeight with the arguments of the session, for the flow
\* direction (sin, cos) of wave.dir quarter turns
WaveValue ==
    GetWaveHeight(wave.x, wave.z, wave.time,
                  Forward((wave.dir + 3) % 4), Forward(wave.dir))

(***************************************************************************)
(* The GUI of the water                                                    *)
(***************************************************************************)
\* flow speeds of the slider (0 to 5): 0, 2.5 and 5.0
Speeds == {0, 25, 50}

\* gui.add(riverParams, 'speed', 0, 5)
SetSpeed(v) ==
    /\ v # river.speed
    /\ river' = [river EXCEPT !.speed = v]
    /\ last' = NoFrame
    /\ UNCHANGED <<terrain, playerLoaded, clips, activeAction, px, py, yaw,
                   verticalVelocity, isGrounded, lastGroundHeight, keys,
                   isLocked, camX, camY, spaceFresh, grav, playing, jumpEnded, snd,
                   water, asset, delta, wave, waterfalls>>

\* flow directions of the slider (-180 to 180), in quarter turns
GuiAngles == {0, 1}

\* gui.add(riverParams, 'flowAngle', -180, 180)
SetFlowAngle(a) ==
    /\ a # river.flowAngle
    /\ river' = [river EXCEPT !.flowAngle = a]
    /\ last' = NoFrame
    /\ UNCHANGED <<terrain, playerLoaded, clips, activeAction, px, py, yaw,
                   verticalVelocity, isGrounded, lastGroundHeight, keys,
                   isLocked, camX, camY, spaceFresh, grav, playing, jumpEnded, snd,
                   water, asset, delta, wave, waterfalls>>

\* foam counts of the slider (0 to 15000)
FoamCounts == {0, 1}

\* gui foamAmount .onChange(updateFoamCount)
SetFoamAmount(n) ==
    /\ n # river.foamAmount
    /\ river' = [river EXCEPT !.foamAmount = n]
    /\ foam' \in UpdateFoamCount(foam, river')
    /\ last' = NoFrame
    /\ UNCHANGED <<terrain, playerLoaded, clips, activeAction, px, py, yaw,
                   verticalVelocity, isGrounded, lastGroundHeight, keys,
                   isLocked, camX, camY, spaceFresh, grav, playing, jumpEnded, snd,
                   mist, asset, delta, wave, waterfalls>>

\* wave heights of the slider (0 to 1)
WaveHeights == {0, 33, 100}

\* gui.add(riverParams, 'waveHeight', 0, 1)
SetWaveHeight(v) ==
    /\ v # river.waveHeight
    /\ river' = [river EXCEPT !.waveHeight = v]
    /\ last' = NoFrame
    /\ UNCHANGED <<terrain, playerLoaded, clips, activeAction, px, py, yaw,
                   verticalVelocity, isGrounded, lastGroundHeight, keys,
                   isLocked, camX, camY, spaceFresh, grav, playing, jumpEnded, snd,
                   water, asset, delta, wave, waterfalls>>

\* getWaveHeight is called, for the first or for the second time
WaveCall ==
    /\ wave.calls < 2
    /\ wave' = IF wave.calls = 0
               THEN [wave EXCEPT !.calls = 1, !.h1 = WaveValue]
               ELSE [wave EXCEPT !.calls = 2, !.h2 = WaveValue]
    /\ UNCHANGED <<terrain, playerLoaded, clips, activeAction, px, py, yaw,
                   verticalVelocity, isGrounded, lastGroundHeight, keys,
                   isLocked, camX, camY, last, spaceFresh, grav, playing, jumpEnded, snd,
                   water, asset, delta, river, waterfalls>>

(***************************************************************************)
(* The waterfalls: two vertical planes, 9 wide and 30 high, at the two    *)
(* ends of the river.  A scale is kept multiplied by the size of the       *)
(* plane, so scale.x is the width of the fall and scale.y its height.      *)
(***************************************************************************)
\* updateRiverHeight, the part that places the waterfalls
UpdateRiverHeight(wf, rv) ==
    [k \in DOMAIN wf |->
        [wf[k] EXCEPT !.x = rv.waterX,
                      !.y = rv.waterHeight - rv.waterfallDrop \div 2,
                      !.z = IF k = 1 THEN rv.waterZ + rv.length \div 2
                            ELSE rv.waterZ - rv.length \div 2]]

\* updateWaterScale, the part that scales the waterfalls, and its call of
\* updateRiverHeight
UpdateWaterScale(wf, rv) ==
    UpdateRiverHeight([k \in DOMAIN wf |->
                          [wf[k] EXCEPT !.scaleX = rv.width,
                                        !.scaleY = rv.waterfallDrop]], rv)

\* createWaterfall: two planes of 9 by 30 at the origin, then
\* updateRiverHeight() and updateWaterScale()
CreateWaterfall(rv) ==
    UpdateWaterScale(
        UpdateRiverHeight(
            [k \in 1..2 |-> [x |-> 0, y |-> 0, z |-> 0,
                             scaleX |-> 9 * 180, scaleY |-> 30 * 180]], rv), rv)

\* values of the sliders of waterHeight, waterX, waterZ and waterfallDrop
HeightFields ==
    [waterHeight |-> {5490, 360}, waterX |-> {0, 360}, waterZ |-> {4 * ColW, 0},
     waterfallDrop |-> {5400, 900}]

\* values of the sliders of width and length
ScaleFields == [width |-> {180, 2070}, length |-> {18000, 180}]

\* gui.add(riverParams, f, ...).onChange(updateRiverHeight)
OnRiverHeightChange(f, v) ==
    /\ v # river[f]
    /\ river' = [river EXCEPT ![f] = v]
    /\ waterfalls' = UpdateRiverHeight(waterfalls, river')
    /\ last' = NoFrame
    /\ UNCHANGED <<terrain, playerLoaded, clips, activeAction, px, py, yaw,
                   verticalVelocity, isGrounded, lastGroundHeight, keys,
                   isLocked, camX, camY, spaceFresh, grav, playing, jumpEnded,
                   snd, water, asset, delta, wave>>

\* gui.add(riverParams, f, ...).onChange(updateWaterScale)
OnWaterScaleChange(f, v) ==
    /\ v # river[f]
    /\ river' = [river EXCEPT ![f] = v]
    /\ waterfalls' = UpdateWaterScale(waterfalls, river')
    /\ last' = NoFrame
    /\ UNCHANGED <<terrain, playerLoaded, clips, activeAction, px, py, yaw,
                   verticalVelocity, isGrounded, lastGroundHeight, keys,
                   isLocked, camX, camY, spaceFresh, grav, playing, jumpEnded,
                   snd, water, asset, delta, wave>>

\* mixer.update brings the jump clip (LoopOnce, clampWhenFinished) to its
\* end; the length of the clip is a property of the asset
JumpClipEnds ==
    /\ activeAction = "jump" /\ ~jumpEnded
    /\ jumpEnded' = TRUE
    /\ last' = NoFrame
    /\ UNCHANGED <<terrain, playerLoaded, clips, activeAction, px, py, yaw,
                   verticalVelocity, isGrounded, lastGroundHeight, keys,
                   isLocked, camX, camY, spaceFresh, grav, playing, snd,
                   water, env>>

NoGrav == [dt |-> 0, t |-> 0, v |-> 0, y |-> 0, v0 |-> 0]

(***************************************************************************)
(* Spec: the page from construction, over the flat terrain                 *)
(***************************************************************************)
Init ==
    /\ asset = 1 /\ delta = SnapDelta
    /\ terrain = 0 /\ playerLoaded = FALSE /\ clips = {}
    /\ activeAction = NoAction
    /\ px = SpawnX /\ py = SpawnY /\ yaw = SpawnYaw
    /\ verticalVelocity = 0 /\ isGrounded = TRUE /\ lastGroundHeight = 0
    /\ keys = NoKeys
    /\ isLocked = FALSE
    /\ camX = InitCamX /\ camY = InitCamY
    /\ last = NoFrame /\ spaceFresh = FALSE /\ grav = NoGrav
    /\ playing = IF activeAction = NoAction THEN {} ELSE {activeAction}
    /\ snd = NoSound /\ jumpEnded = FALSE
    /\ river = Beside
    /\ waterfalls = CreateWaterfall(river)
    /\ foam = NoParticles /\ mist = NoParticles /\ wave = NoWave

Next ==
    \/ FrameSkip
    \/ FrameThrow
    \/ FrameRun
    \/ TerrainLoaded
    \/ CharacterLoaded
    \/ \E n \in ClipNames : AnimLoaded(n)
    \/ \E k \in KeyNames : KeyDown(k)
    \/ \E k \in KeyNames : KeyUp(k)
    \/ Lock
    \/ Unlock

Spec == Init /\ [][Next]_vars

(***************************************************************************)
(* PlaySpec: every asset has loaded and the player has turned to the       *)
(* camera heading; any terrain, either frame duration                      *)
(***************************************************************************)
PlayInit ==
    /\ \E s \in Sessions : asset = s[1] /\ delta = s[2]
    /\ terrain = asset /\ playerLoaded = TRUE /\ clips = ClipNames
    /\ activeAction = "idle"
    /\ px = SpawnX /\ py = SpawnY /\ yaw = CamYaw
    /\ verticalVelocity = 0 /\ isGrounded = TRUE /\ lastGroundHeight = 0
    /\ keys = NoKeys
    /\ isLocked = FALSE
    /\ camX = SpawnX - CamDist /\ camY = SpawnY + CamHeight
    /\ last = NoFrame /\ spaceFresh = FALSE /\ grav = NoGrav
    /\ playing = IF activeAction = NoAction THEN {} ELSE {activeAction}
    /\ snd = NoSound /\ jumpEnded = FALSE
    /\ river = Beside
    /\ waterfalls = CreateWaterfall(river)
    /\ foam = NoParticles /\ mist = NoParticles /\ wave = NoWave

PlayNext ==
    \/ FrameRun
    \/ \E k \in KeyNames : KeyDown(k)
    \/ \E k \in KeyNames : KeyUp(k)
    \/ Lock
    \/ Unlock

PlaySpec == PlayInit /\ [][PlayNext]_vars

(***************************************************************************)
(* JumpSpec: flat terrain, every asset loaded, pointer locked for the      *)
(* whole run.  animate re-arms itself with requestAnimationFrame before    *)
(* anything else, so frames keep coming: weak fairness of the frame.       *)
(***************************************************************************)
JumpInit ==
    /\ asset = 1 /\ delta \in Deltas
    /\ terrain = asset /\ playerLoaded = TRUE /\ clips = ClipNames
    /\ activeAction = "idle"
    /\ px = 0 /\ py = SnapEps /\ yaw = CamYaw
    /\ verticalVelocity = 0 /\ isGrounded = TRUE /\ lastGroundHeight = 0
    /\ keys = NoKeys
    /\ isLocked = TRUE
    /\ camX = 0 - CamDist /\ camY = SnapEps + CamHeight
    /\ last = NoFrame /\ spaceFresh = FALSE /\ grav = NoGrav
    /\ playing = IF activeAction = NoAction THEN {} ELSE {activeAction}
    /\ snd = NoSound /\ jumpEnded = FALSE
    /\ river = Beside
    /\ waterfalls = CreateWaterfall(river)
    /\ foam = NoParticles /\ mist = NoParticles /\ wave = NoWave

JumpNext ==
    \/ FrameRun
    \/ \E k \in KeyNames : KeyDown(k)
    \/ \E k \in KeyNames : KeyUp(k)

JumpSpec == JumpInit /\ [][JumpNext]_vars /\ WF_vars(FrameRun)

(***************************************************************************)
(* GravSpec: the gravity lines alone, no ground contact: one second of     *)
(* frames of a fixed duration, from a given vertical velocity              *)
(***************************************************************************)
\* one second in ticks
Second == 10 * SnapDelta

\* frame durations that divide the second
FrameTicks == {d \in 1..Second : Second % d = 0}

\* verticalVelocity -= 20.0 * delta; player.position.y += verticalVelocity * delta
GravityFrame ==
    /\ grav.dt > 0 /\ grav.t < Second
    /\ grav' = [grav EXCEPT
                  !.t = grav.t + grav.dt,
                  !.v = GravityVelocity(grav.v, grav.dt),
                  !.y = GravityPosition(grav.y, GravityVelocity(grav.v, grav.dt),
                                        grav.dt)]
    /\ UNCHANGED <<terrain, playerLoaded, clips, activeAction, px, py, yaw,
                   verticalVelocity, isGrounded, lastGroundHeight, keys,
                   isLocked, camX, camY, last, spaceFresh, playing, jumpEnded, snd, water, env>>

GravInit ==
    /\ asset = 1 /\ delta = SnapDelta
    /\ terrain = 0 /\ playerLoaded = FALSE /\ clips = {}
    /\ activeAction = NoAction
    /\ px = SpawnX /\ py = SpawnY /\ yaw = SpawnYaw
    /\ verticalVelocity = 0 /\ isGrounded = TRUE /\ lastGroundHeight = 0
    /\ keys = NoKeys
    /\ isLocked = FALSE
    /\ camX = InitCamX /\ camY = InitCamY
    /\ last = NoFrame /\ spaceFresh = FALSE /\ playing = {}
    /\ snd = NoSound /\ jumpEnded = FALSE
    /\ river = Beside
    /\ waterfalls = CreateWaterfall(river)
    /\ foam = NoParticles /\ mist = NoParticles /\ wave = NoWave
    /\ \E d \in FrameTicks : \E v \in {0, JumpForce} :
          grav = [dt |-> d, t |-> 0, v |-> v, y |-> 0, v0 |-> v]

GravNext == GravityFrame

GravSpec == GravInit /\ [][GravNext]_vars

(***************************************************************************)
(* StallSpec: flat terrain, every asset loaded, pointer locked; the page   *)
(* runs at 10 or 5 frames a second, or every frame follows a stall of one  *)
(* second.  const delta = clock.getDelta() is the whole real gap.          *)
(***************************************************************************)
\* real gaps between two frames, in ticks
StallGaps == {SnapDelta, 2 * SnapDelta, Second}

\* const delta = clock.getDelta(): the seconds since the previous call
GetDelta(gap) == gap

StallInit ==
    /\ asset = 1 /\ delta \in {GetDelta(g) : g \in StallGaps}
    /\ terrain = asset /\ playerLoaded = TRUE /\ clips = ClipNames
    /\ activeAction = "idle"
    /\ px = 0 /\ py = SnapEps /\ yaw = CamYaw
    /\ verticalVelocity = 0 /\ isGrounded = TRUE /\ lastGroundHeight = 0
    /\ keys = NoKeys
    /\ isLocked = TRUE
    /\ camX = 0 - CamDist /\ camY = SnapEps + CamHeight
    /\ last = NoFrame /\ spaceFresh = FALSE /\ grav = NoGrav
    /\ playing = IF activeAction = NoAction THEN {} ELSE {activeAction}
    /\ snd = NoSound /\ jumpEnded = FALSE
    /\ river = Beside
    /\ waterfalls = CreateWaterfall(river)
    /\ foam = NoParticles /\ mist = NoParticles /\ wave = NoWave

StallNext ==
    \/ FrameRun
    \/ \E k \in KeyNames : KeyDown(k)
    \/ \E k \in KeyNames : KeyUp(k)

StallSpec == StallInit /\ [][StallNext]_vars

(***************************************************************************)
(* StepSpec: flat terrain, every asset loaded and the footstep buffer      *)
(* decoded, so that the footstep logic of the frame is live.               *)
(***************************************************************************)
StepInit ==
    /\ asset = 1 /\ delta = SnapDelta
    /\ terrain = asset /\ playerLoaded = TRUE /\ clips = ClipNames
    /\ activeAction = "idle"
    /\ px = 0 /\ py = SnapEps /\ yaw = CamYaw
    /\ verticalVelocity = 0 /\ isGrounded = TRUE /\ lastGroundHeight = 0
    /\ keys = NoKeys
    /\ isLocked = FALSE
    /\ camX = 0 - CamDist /\ camY = SnapEps + CamHeight
    /\ last = NoFrame /\ spaceFresh = FALSE /\ grav = NoGrav
    /\ playing = {activeAction}
    /\ snd = Sound /\ jumpEnded = FALSE
    /\ river = Beside
    /\ waterfalls = CreateWaterfall(river)
    /\ foam = NoParticles /\ mist = NoParticles /\ wave = NoWave

StepNext ==
    \/ FrameRun
    \/ \E k \in KeyNames : KeyDown(k)
    \/ \E k \in KeyNames : KeyUp(k)
    \/ Lock
    \/ Unlock

StepSpec == StepInit /\ [][StepNext]_vars

(***************************************************************************)
(* RiverSpec: a flat row that crosses the river, every asset loaded.  The  *)
(* river lies over the middle of the row; the session fixes the water      *)
(* level above the ground (0.61: deeper than the buffer over the feet,     *)
(* 0.3: shallow, -1.0: dry) and the flow angle (0, 90, 180 degrees).       *)
(***************************************************************************)
WaterLevels == {110, 54, -180}
FlowAngles == {0, 1, 2}
Rivers == {[waterX |-> 0, waterZ |-> 3 * ColW, width |-> 2070,
            length |-> 4 * ColW, waterHeight |-> h, flowAngle |-> a,
            speed |-> 7, waveHeight |-> 33, foamAmount |-> 0,
       waterfallDrop |-> 5400] :
              h \in WaterLevels, a \in FlowAngles}

RiverInit ==
    /\ asset = 6 /\ delta = SnapDelta
    /\ river \in Rivers
    /\ terrain = asset /\ playerLoaded = TRUE /\ clips = ClipNames
    /\ activeAction = "idle"
    /\ px = 0 /\ py = SnapEps /\ yaw = CamYaw
    /\ verticalVelocity = 0 /\ isGrounded = TRUE /\ lastGroundHeight = 0
    /\ keys = NoKeys
    /\ isLocked = TRUE
    /\ camX = 0 - CamDist /\ camY = SnapEps + CamHeight
    /\ last = NoFrame /\ spaceFresh = FALSE /\ grav = NoGrav
    /\ playing = {activeAction}
    /\ snd = NoSound /\ jumpEnded = FALSE
    /\ waterfalls = CreateWaterfall(river)
    /\ foam = NoParticles /\ mist = NoParticles /\ wave = NoWave

RiverNext ==
    \/ FrameRun
    \/ \E k \in KeyNames : KeyDown(k)
    \/ \E k \in KeyNames : KeyUp(k)

RiverSpec == RiverInit /\ [][RiverNext]_vars

(***************************************************************************)
(* FoamSpec: the water before the terrain has arrived.  The character is   *)
(* loaded and stands at its spawn point, the controller is skipped, every  *)
(* frame updates the water.  One foam particle, no mist.  The session      *)
(* fixes the river: 1.0 or 11.5 wide, 1.0 or 100 long, the water level at  *)
(* the feet of the player or 30.5 above the row.  animate re-arms itself   *)
(* with requestAnimationFrame: weak fairness of the frame.                 *)
(***************************************************************************)
FoamRivers ==
    { [waterX |-> 0, waterZ |-> SpawnX, width |-> w, length |-> l,
       waterHeight |-> h, flowAngle |-> 0, speed |-> v, waveHeight |-> 33,
       foamAmount |-> 1,
       waterfallDrop |-> 5400] :
        w \in {180, 2070}, l \in {180, 18000}, h \in {SpawnY, 5490},
        v \in Speeds }

FoamInit ==
    /\ asset = 1 /\ delta = SnapDelta
    /\ river \in FoamRivers
    /\ terrain = 0 /\ playerLoaded = TRUE /\ clips = ClipNames
    /\ activeAction = "idle"
    /\ px = SpawnX /\ py = SpawnY /\ yaw = SpawnYaw
    /\ verticalVelocity = 0 /\ isGrounded = TRUE /\ lastGroundHeight = 0
    /\ keys = NoKeys
    /\ isLocked = FALSE
    /\ camX = SpawnX - CamDist /\ camY = SpawnY + CamHeight
    /\ last = NoFrame /\ spaceFresh = FALSE /\ grav = NoGrav
    /\ playing = {activeAction}
    /\ snd = NoSound /\ jumpEnded = FALSE
    /\ waterfalls = CreateWaterfall(river)
    /\ foam \in CreateFoamSystem(river) /\ mist = NoParticles
    /\ wave = NoWave

FoamNext ==
    \/ FrameSkip
    \/ \E v \in Speeds : SetSpeed(v)

FoamSpec == FoamInit /\ [][FoamNext]_vars /\ WF_vars(FrameSkip)

(***************************************************************************)
(* CountSpec: the water before the terrain has arrived, as in FoamSpec,    *)
(* with the river as configured and standing still (flow speed 0), one     *)
(* mist particle, and a foam count that the GUI changes, 0 at the start.    *)
(***************************************************************************)
CountInit ==
    /\ asset = 1 /\ delta = SnapDelta
    /\ river = [waterX |-> 0, waterZ |-> SpawnX, width |-> 2070,
                length |-> 18000, waterHeight |-> 5490, flowAngle |-> 0,
                speed |-> 0, waveHeight |-> 33, foamAmount |-> 0,
       waterfallDrop |-> 5400]
    /\ terrain = 0 /\ playerLoaded = TRUE /\ clips = ClipNames
    /\ activeAction = "idle"
    /\ px = SpawnX /\ py = SpawnY /\ yaw = SpawnYaw
    /\ verticalVelocity = 0 /\ isGrounded = TRUE /\ lastGroundHeight = 0
    /\ keys = NoKeys
    /\ isLocked = FALSE
    /\ camX = SpawnX - CamDist /\ camY = SpawnY + CamHeight
    /\ last = NoFrame /\ spaceFresh = FALSE /\ grav = NoGrav
    /\ playing = {activeAction}
    /\ snd = NoSound /\ jumpEnded = FALSE
    /\ waterfalls = CreateWaterfall(river)
    /\ foam \in CreateFoamSystem(river) /\ mist \in MistSeeds(1)
    /\ wave = NoWave

CountNext ==
    \/ FrameSkip
    \/ \E n \in FoamCounts : SetFoamAmount(n)

CountSpec == CountInit /\ [][CountNext]_vars

(***************************************************************************)
(* WaveSpec: getWaveHeight is called twice with the arguments the session  *)
(* fixes, while frames run and the GUI changes the river between the calls.*)
(***************************************************************************)
WaveArgs ==
    { [NoWave EXCEPT !.x = x, !.z = z, !.time = t, !.dir = d] :
        x \in {0, 20}, z \in {10, 40}, t \in {0, 10, 25}, d \in {0, 1} }

WaveInit ==
    /\ asset = 1 /\ delta = SnapDelta
    /\ terrain = 0 /\ playerLoaded = FALSE /\ clips = {}
    /\ activeAction = NoAction
    /\ px = SpawnX /\ py = SpawnY /\ yaw = SpawnYaw
    /\ verticalVelocity = 0 /\ isGrounded = TRUE /\ lastGroundHeight = 0
    /\ keys = NoKeys
    /\ isLocked = FALSE
    /\ camX = InitCamX /\ camY = InitCamY
    /\ last = NoFrame /\ spaceFresh = FALSE /\ grav = NoGrav
    /\ playing = {} /\ snd = NoSound /\ jumpEnded = FALSE
    /\ river = Beside
    /\ waterfalls = CreateWaterfall(river)
    /\ foam = NoParticles /\ mist = NoParticles
    /\ wave \in WaveArgs

WaveNext ==
    \/ WaveCall
    \/ FrameSkip
    \/ \E v \in Speeds : SetSpeed(v)
    \/ \E v \in WaveHeights : SetWaveHeight(v)

WaveSpec == WaveInit /\ [][WaveNext]_vars

(***************************************************************************)
(* ClipSpec: flat terrain, every asset loaded, pointer locked, and a jump  *)
(* clip that may reach its end at any moment of the jump.                  *)
(***************************************************************************)
ClipInit == JumpInit /\ delta = SnapDelta

ClipNext ==
    \/ FrameRun
    \/ \E k \in KeyNames : KeyDown(k)
    \/ \E k \in KeyNames : KeyUp(k)
    \/ JumpClipEnds

ClipSpec == ClipInit /\ [][ClipNext]_vars

(***************************************************************************)
(* MistSpec: the water before the terrain has arrived, with one mist       *)
(* particle and no foam, while the GUI changes the flow speed and the flow *)
(* direction.                                                              *)
(***************************************************************************)
MistInit ==
    /\ asset = 1 /\ delta = SnapDelta
    /\ river \in { [waterX |-> 0, waterZ |-> 4 * ColW, width |-> w,
                    length |-> 18000, waterHeight |-> 5490, flowAngle |-> 0,
                    speed |-> 7, waveHeight |-> 33, foamAmount |-> 0,
       waterfallDrop |-> 5400] :
                     w \in {180, 2070} }
    /\ terrain = 0 /\ playerLoaded = TRUE /\ clips = ClipNames
    /\ activeAction = "idle"
    /\ px = SpawnX /\ py = SpawnY /\ yaw = SpawnYaw
    /\ verticalVelocity = 0 /\ isGrounded = TRUE /\ lastGroundHeight = 0
    /\ keys = NoKeys
    /\ isLocked = FALSE
    /\ camX = SpawnX - CamDist /\ camY = SpawnY + CamHeight
    /\ last = NoFrame /\ spaceFresh = FALSE /\ grav = NoGrav
    /\ playing = {activeAction}
    /\ snd = NoSound /\ jumpEnded = FALSE
    /\ waterfalls = CreateWaterfall(river)
    /\ foam = NoParticles /\ mist \in MistSeeds(1)
    /\ wave = NoWave

MistNext ==
    \/ FrameSkip
    \/ \E v \in Speeds : SetSpeed(v)
    \/ \E a \in GuiAngles : SetFlowAngle(a)

MistSpec == MistInit /\ [][MistNext]_vars

(***************************************************************************)
(* FallSpec: the water before the terrain has arrived, without particles,  *)
(* while the GUI changes the place and the size of the river.              *)
(***************************************************************************)
FallInit ==
    /\ asset = 1 /\ delta = SnapDelta
    /\ river = [waterX |-> 0, waterZ |-> 4 * ColW, width |-> 2070,
                length |-> 18000, waterHeight |-> 5490, flowAngle |-> 0,
                speed |-> 7, waveHeight |-> 33, foamAmount |-> 0,
                waterfallDrop |-> 5400]
    /\ terrain = 0 /\ playerLoaded = TRUE /\ clips = ClipNames
    /\ activeAction = "idle"
    /\ px = SpawnX /\ py = SpawnY /\ yaw = SpawnYaw
    /\ verticalVelocity = 0 /\ isGrounded = TRUE /\ lastGroundHeight = 0
    /\ keys = NoKeys
    /\ isLocked = FALSE
    /\ camX = SpawnX - CamDist /\ camY = SpawnY + CamHeight
    /\ last = NoFrame /\ spaceFresh = FALSE /\ grav = NoGrav
    /\ playing = {activeAction}
    /\ snd = NoSound /\ jumpEnded = FALSE
    /\ waterfalls = CreateWaterfall(river)
    /\ foam = NoParticles /\ mist = NoParticles
    /\ wave = NoWave

FallNext ==
    \/ FrameSkip
    \/ \E f \in DOMAIN HeightFields :
           \E v \in HeightFields[f] : OnRiverHeightChange(f, v)
    \/ \E f \in DOMAIN ScaleFields :
           \E v \in ScaleFields[f] : OnWaterScaleChange(f, v)

FallSpec == FallInit /\ [][FallNext]_vars

(***************************************************************************)
(* Properties                                                              *)
(***************************************************************************)
\* a frame in which the controller ran to its end
Resolved == last.kind \in {"ctl", "free"}

\* a controlled frame of a grounded mover that does not jump
GroundedMover ==
    /\ last.kind = "ctl" /\ last.preG /\ ~last.jumped /\ IsMoving(last.keys)

\* where the mover of the last frame was heading
MoveTarget == last.preX + Forward(yaw) * MoveSpeed(last.keys) * last.dt

\* the revert happens exactly under the code's condition
RevertExactly ==
    (Resolved /\ last.hit) =>
        /\ last.reverted <=> /\ last.newGround - last.oldGround > MaxStepHeight
                             /\ last.jumpG
                             /\ ~(last.capV > 0)
                             /\ ~(last.capY > last.newGround)
        /\ px = IF last.reverted THEN last.preX ELSE last.moveX

\* a grounded mover whose ground rises by at most 0.2 (36) is not reverted
StepNotReverted ==
    (GroundedMover /\ last.hit /\ last.newGround > last.oldGround
       /\ last.newGround - last.oldGround <= 36)
    => (~last.reverted /\ px = last.moveX)

\* a grounded mover heading into ground 1.0 (180) higher keeps its place
WallReverted ==
    (GroundedMover /\ \E s \in Solids(terrain, MoveTarget) :
                           s.open /\ s.hi - last.oldGround >= 180)
    => px = last.preX

\* C1: whenever the post-move probe hits, the move is reverted on X/Z exactly
\* when the ground rose by more than the step threshold and the player is
\* grounded, not moving up and not above the new ground; so a grounded,
\* non-jumping mover is never reverted by a 0.2 step and always ends the
\* frame at its pre-frame X/Z when it walks into a 1.0 wall.
C1_StepHeightPolicy == RevertExactly /\ StepNotReverted /\ WallReverted

\* a controlled frame (also one cut short) with space down on a grounded player
JumpFrame == last.kind \in {"ctl", "throw"} /\ last.keys.space /\ last.preG

\* C2: in a controlled frame with the jump input pressed and the player
\* grounded the jump block leaves verticalVelocity at the jump impulse, the
\* grounded flag cleared and, when the jump clip is loaded, the jump action
\* active; in every other frame the impulse is not applied.
C2_JumpEffect ==
    /\ JumpFrame => /\ last.jumpV = JumpForce
                    /\ ~last.jumpG
                    /\ last.hasJump => last.jumpAct = "jump"
    /\ (last.kind # "none" /\ ~JumpFrame) =>
           (~last.jumped /\ last.jumpV = last.preV /\ last.jumpG = last.preG)

\* C3: a jump is triggered only by a new press of the jump key: every frame
\* that triggers a jump finds the key pressed since the previous jump.
C3_JumpNeedsNewPress == last.jumped => last.fresh

\* the frame ended on the ground it probed, coming down
Landed ==
    /\ Resolved /\ last.hit /\ last.moveV < 0
    /\ py = last.newGround + SnapEps /\ verticalVelocity = 0 /\ isGrounded

\* the controlled frame after a landing, the jump key released
AfterLanding ==
    last.kind = "ctl" /\ last.preG /\ last.preAct = "jump" /\ ~last.keys.space

\* the locomotion animation that the held keys ask for
HeldAnimation ==
    IF last.keys.w THEN (IF last.keys.shift THEN "run" ELSE "walk") ELSE "idle"

NoHitFrame == Resolved /\ last.probed /\ ~last.hit

\* C5: a frame whose post-move ground probe finds nothing ends with
\* position.y and verticalVelocity as gravity and the ceiling check left
\* them and with the grounded flag as the jump block left it; in a
\* controlled frame the velocity is the jump block's minus 20*delta, and
\* position.y decreases whenever that velocity is negative.
C5_NoHitFreeFall ==
    NoHitFrame =>
        /\ py = last.capY /\ verticalVelocity = last.capV
        /\ isGrounded = last.jumpG
        /\ last.kind = "ctl" =>
              /\ last.moveV = last.jumpV - last.dt
              /\ last.moveY = last.preY + last.moveV * last.dt
              /\ last.moveV < 0 => py < last.preY

C5_Witness == NoHitFrame /\ last.kind = "ctl" /\ last.moveV < 0 /\ py < last.preY

\* C5 as stated: after a no-hit frame position.y and verticalVelocity are
\* the unclamped ones, and position.y has decreased in every controlled
\* frame for which the probe finds no ground.
C5_NoHitAlwaysFalls ==
    (NoHitFrame /\ last.kind = "ctl") =>
        /\ py = last.moveY /\ verticalVelocity = last.moveV
        /\ py < last.preY

\* C6: every frame of the controller that has position.y below -10 after
\* the movement ends with the player at the last known ground height + 0.1
\* and zero vertical velocity.
C6_EmergencyRecovery ==
    (Resolved /\ last.moveY < EscapeY) =>
        (py = lastGroundHeight + SnapEps /\ verticalVelocity = 0)

\* C7: no frame update raises an exception, whatever the order in which the
\* terrain, the character and the clips load and whatever the input.
C7_NoFrameThrows == last.kind # "throw"

\* C8: a frame in which the terrain or the player has not loaded changes
\* none of position, facing, verticalVelocity, isGrounded, lastGroundHeight,
\* activeAction and camera position, and issues no probe.
C8_PreconditionSkip ==
    [][(last'.kind # "none" /\ ~(playerLoaded /\ terrain # 0)) =>
          /\ UNCHANGED <<px, py, yaw, verticalVelocity, isGrounded,
                         lastGroundHeight, activeAction, camX, camY>>
          /\ ~last'.probed]_vars

C8_Witness ==
    /\ last.kind = "skip" /\ playerLoaded /\ terrain = 0
    /\ isLocked /\ keys.w /\ keys.space /\ py = SpawnY

\* C9: a reverted move leaves X/Z at the pre-frame values, and a player
\* that started the frame grounded ends it at oldGroundHeight + 0.1 with
\* zero vertical velocity and grounded, whatever the terrain has above.
C9_RevertLanding ==
    last.reverted =>
        /\ px = last.preX
        /\ last.preG => /\ py = last.oldGround + SnapEps
                        /\ verticalVelocity = 0
                        /\ isGrounded

\* net displacement of one frame that lasts the whole second
OneFrameFall == GravityPosition(0, GravityVelocity(grav.v0, Second), Second)

\* C10: after one second of frames of 1/60 s without ground contact the net
\* vertical displacement is that of a single frame of 1 s, to within a
\* tenth of the latter.
C10_FrameRateIndependent ==
    (grav.dt = 1 /\ grav.t = Second) =>
        /\ 10 * (grav.y - OneFrameFall) <= 0 - OneFrameFall
        /\ 10 * (OneFrameFall - grav.y) <= 0 - OneFrameFall

\* the longest time a frame may use if delta is clamped at all: a clamp
\* that lets a whole second through prevents nothing
MaxDelta == Second - 1

\* C11: the time a frame uses for gravity, facing and movement stays below
\* a fixed maximum whatever the real gap since the previous frame, so the
\* frame after a stall of one second moves the player by less than one
\* second's worth of its speed.
C11_DeltaClamped ==
    last.kind # "none" =>
        /\ last.dt <= MaxDelta
        /\ MoveSpeed(last.keys) * last.dt <= MoveSpeed(last.keys) * MaxDelta

\* the controller ran to its end in the last frame, the probe hit, no revert
HitNoRevert == Resolved /\ last.hit /\ ~last.reverted

\* C19: in every frame in which the controller runs, locked or not,
\* verticalVelocity is decreased by 20*delta and position.y is then
\* increased by verticalVelocity*delta, before the probe step.
C19_GravityAlwaysIntegrates ==
    Resolved =>
        /\ last.moveV = last.jumpV - last.dt
        /\ last.moveY = last.preY + last.moveV * last.dt

\* the landing snap applies: feet not above ground + 0.1, not moving up
Snaps == last.capY <= last.newGround + SnapEps /\ last.capV <= 0

C17_OneActiveAction == last.kind # "none" => playing \subseteq {activeAction}

\* a frame has just ended in which footstepSound.play() was called
StepStarted == last.kind # "none" /\ snd.started

\* C18: a footstep is started only in a frame where the player is grounded,
\* the controls are active and movement input is present.
C18_FootstepsFollowMovement ==
    StepStarted => last.preG /\ isLocked /\ IsMoving(last.keys)

\* a controlled frame has just ended that moved the player along the row
Moved == /\ last.kind = "ctl" /\ IsMoving(last.keys) /\ ~last.blocked

\* the player is over the river footprint at the start of the frame
InFootprint == /\ Abs(0 - river.waterX) * 2 < river.width
               /\ Abs(last.preX - river.waterZ) * 2 < river.length

\* the frame moved the player by f/2 times the plain move speed
MovedBy(f) ==
    last.moveX = Wrap(terrain, last.preX + Forward(yaw)
                        * ((MoveSpeed(last.keys) * f * last.dt) \div 2))

\* C16 as stated: inside the footprint and within 0.5 of the water height
\* vertically the move speed is multiplied by 1 + 0.5 * alignment, and by
\* exactly 1 everywhere else.
C16_FlowMultiplierStated ==
    Moved => IF InFootprint /\ Abs(last.moveY - river.waterHeight) <= FlowBuffer
             THEN MovedBy(2 + Alignment(yaw, river))
             ELSE MovedBy(2)

\* C16: inside the footprint and with the feet lower than the water height
\* plus 0.5, however deep, the move speed is multiplied by
\* 1 + 0.5 * alignment, which lies in [0.5, 1.5], is more than 1 with the
\* flow and less than 1 against it; everywhere else the multiplier is 1.
C16_FlowMultiplier ==
    Moved => IF InFootprint /\ last.moveY < river.waterHeight + FlowBuffer
             THEN /\ MovedBy(2 + Alignment(yaw, river))
                  /\ 2 + Alignment(yaw, river) \in 1..3
                  /\ river.flowAngle = yaw => 2 + Alignment(yaw, river) > 2
                  /\ river.flowAngle = (yaw + 2) % 4
                       => 2 + Alignment(yaw, river) < 2
             ELSE MovedBy(2)

\* the player wades with the flow in water deeper than the buffer
C16_Witness ==
    /\ Moved /\ InFootprint /\ last.preG
    /\ last.moveY < river.waterHeight - FlowBuffer
    /\ Alignment(yaw, river) = 1
    /\ last.moveX = last.preX + (3 * WalkSpeed * last.dt) \div 2

\* a frame respawns foam particle i: its life has run out and is set to 1.0
Respawns(i) == /\ last'.kind # "none"
               /\ i \in DOMAIN foam.lives
               /\ foam.lives[i] - river.speed <= 0
               /\ foam'.lives[i] = 1000

\* C12: for every flow speed of the slider (0 to 5) every foam particle is
\* respawned again and again: its life keeps running out and being reset.
C12_FoamRespawnsForever == []<><<Respawns(1)>>_vars

\* the square of the distance between two points of the water
Dist2(x, z, cx, cz) == (x - cx) * (x - cx) + (z - cz) * (z - cz)

\* within the configured width/length envelope
InEnvelope(x, z) == /\ Abs(x) * 2 <= ToFoam(river.width)
                    /\ Abs(z) * 2 <= ToFoam(river.length)

\* within the distance at which a rock acts on the water, 2.5 radii
NearRock(x, z) ==
    \E k \in DOMAIN Rocks :
        4 * Dist2(x, z, Rocks[k].x, Rocks[k].z)
            <= (5 * Rocks[k].radius) * (5 * Rocks[k].radius)

\* within 0.8 of a player who stands in the water
NearPlayer(x, z) ==
    /\ PlayerInWater(river)
    /\ Dist2(x, z, ToFoam(0 - river.waterX), ToFoam(px - river.waterZ))
         <= 16 * 16

\* a frame has just ended that respawned foam particle i
JustRespawned(i) == /\ last.kind # "none"
                    /\ i \in DOMAIN foam.lives
                    /\ foam.lives[i] = 1000

\* C13: every foam respawn, for every width and length, places the
\* particle within the width/length envelope, or within the influence
\* radius of a rock, or within the splash radius of a player in the water.
C13_RespawnBounded ==
    \A i \in DOMAIN foam.lives :
        JustRespawned(i) =>
            \/ InEnvelope(foam.positions[3 * i - 2], foam.positions[3 * i])
            \/ NearRock(foam.positions[3 * i - 2], foam.positions[3 * i])
            \/ NearPlayer(foam.positions[3 * i - 2], foam.positions[3 * i])

\* a respawn beside a rock that lies outside a river 1.0 wide
C13_Witness ==
    /\ JustRespawned(1)
    /\ river.width = 180
    /\ ~InEnvelope(foam.positions[1], foam.positions[3])
    /\ NearRock(foam.positions[1], foam.positions[3])

\* the three arrays of a population hold the same number of particles
Matching(p) == /\ Len(p.positions) = 3 * Len(p.lives)
               /\ Len(p.offsets) = Len(p.lives)

\* a step leaves the lengths of the arrays of a population as they are
SameLengths(p, q) == /\ Len(q.positions) = Len(p.positions)
                     /\ Len(q.lives) = Len(p.lives)
                     /\ Len(q.offsets) = Len(p.offsets)

\* C14: the position, life and offset arrays of the foam and of the mist
\* have matching lengths, a frame respawns in place and changes no length,
\* the mist arrays never change length, and at every moment the configured
\* foamAmount is the capacity of the live foam arrays.
C14_Capacity ==
    /\ [](Matching(foam) /\ Matching(mist)
          /\ river.foamAmount = Len(foam.lives))
    /\ [][/\ SameLengths(mist, mist')
          /\ last'.kind # "none" => SameLengths(foam, foam')]_vars

\* after a count change (the session starts with the count at 0) a frame
\* has respawned the foam particle and the mist particle in place
C14_Witness ==
    /\ JustRespawned(1) /\ river.foamAmount = 1
    /\ mist.lives = <<1000>> /\ mist.positions[2] > 0 - 10000
    /\ Len(foam.positions) = 3

\* C15: getWaveHeight called twice with identical arguments returns the
\* identical value, whatever frames and configuration changes happen
\* between the two calls.
C15_WaveDeterministic == wave.calls = 2 => wave.h2 = wave.h1

\* a controlled frame with movement input has just ended
MovingFrame == last.kind = "ctl" /\ IsMoving(last.keys)

\* a forward ray from knee, neck or head height hit terrain nearer than 0.8
\* in the frame that has just ended
RayNear ==
    \E h \in {KneeHeight, NeckHeight, HeadHeight} :
        /\ WallProbe(terrain, last.preX, last.moveY + h, Forward(yaw)).hit
        /\ WallProbe(terrain, last.preX, last.moveY + h, Forward(yaw)).distance
             < WallDist

\* C21: if a forward wall ray from knee, neck or head hits terrain nearer
\* than 0.8, the movement step of the frame leaves the player's place along
\* the row unchanged while facing and gravity are still updated; otherwise
\* the player is translated by moveSpeed * dt along its facing.
C21_WallBlock ==
    MovingFrame =>
        /\ yaw = Slerp(last.preYaw, TargetYaw(last.keys), last.dt)
        /\ last.moveV = last.jumpV - last.dt
        /\ last.moveY = last.preY + last.moveV * last.dt
        /\ last.moveX = IF RayNear THEN last.preX
                        ELSE Wrap(terrain, last.preX + Forward(yaw)
                               * Travel(last.keys, river, last.preX,
                                        last.moveY, yaw, last.dt))

\* a walking player has been stopped by the wall while gravity acted
C21_Witness ==
    /\ MovingFrame /\ RayNear /\ last.moveX = last.preX
    /\ last.moveV < last.jumpV /\ terrain = 4

\* the upward probe of the frame that has just ended, cast from feet + 0.2
\* at the place the movement step left the player
CeilingProbe == UpProbe(terrain, last.moveX, last.moveY + CeilStart)

\* C22: at the end of a frame whose upward probe hit a ceiling closer than
\* 1.8, position.y is at most the ceiling height minus 1.9 and the vertical
\* velocity is not positive.
C22_CeilingCapHolds ==
    (Resolved /\ CeilingProbe.hit /\ CeilingProbe.distance < CeilDist)
    => /\ py <= CeilingProbe.y - HeadRoom
       /\ verticalVelocity <= 0

\* a controlled frame that began with the jump action active and did not
\* trigger a new jump
JumpActiveFrame == last.kind = "ctl" /\ last.preAct = "jump" /\ ~last.jumped

\* C23: while the jump action is active no frame replaces it until the jump
\* clip has finished or the player is grounded again, and once either has
\* happened the next controlled frame switches to the animation selected
\* by the held input.
C23_JumpClipNotPreempted ==
    JumpActiveFrame =>
        IF last.preG \/ jumpEnded THEN activeAction = HeldAnimation
        ELSE activeAction = "jump"

\* C24: at the end of every controlled frame the camera is at the player's
\* final position of that frame plus the follow offset (CamDist behind the
\* look direction, CamHeight above), except where the below-ground clamp
\* has raised the camera's height.
C24_CameraFollowsFinal ==
    last.kind = "ctl" =>
        /\ camX = px - CamDist
        /\ \/ camY = py + CamHeight
           \/ /\ camY = lastGroundHeight - CamMinBelowGround
              /\ camY > py + CamHeight

\* Math.sqrt, rounded down, of a squared distance on the particle grid
Root(n) == CHOOSE k \in 0..n : k * k <= n /\ (k + 1) * (k + 1) > n

\* the rock push of updateWater on the mesh vertex at (x, z), in thousandths:
\* (1 - dist / (radius * 2.5)) * 0.6 for every rock within 2.5 radii
RockBump(rock, x, z) ==
    IF 4 * Dist2(x, z, rock.x, rock.z) < (5 * rock.radius) * (5 * rock.radius)
    THEN ((1000 - (2000 * Root(Dist2(x, z, rock.x, rock.z)))
                      \div (5 * rock.radius)) * 6) \div 10
    ELSE 0

RECURSIVE RockPush(_, _, _)
RockPush(k, x, z) ==
    IF k > Len(Rocks) THEN 0
    ELSE RockBump(Rocks[k], x, z) + RockPush(k + 1, x, z)

\* the height of a foam particle above getWaveHeight at its place, in
\* thousandths (positions are on the 0.05 grid)
FoamAboveWave(i) == foam.positions[3 * i - 1] * 50

\* C25: after every frame every foam particle is 0.05 above the wave field
\* of the water mesh at its (x, z): the sine waves plus the radial bump of
\* every rock within its influence radius.
C25_FoamHeightLock ==
    last.kind # "none" =>
        \A i \in DOMAIN foam.lives :
            FoamAboveWave(i)
              = RockPush(1, foam.positions[3 * i - 2], foam.positions[3 * i]) + 50

\* the number of frames since the respawn of a mist particle of that life
MistAge(life) == (1000 - life) \div 15

\* the mist particle has been respawned: it has left its hiding place
MistShown(i) == i \in DOMAIN mist.lives /\ mist.positions[3 * i - 1] > 0 - 5000

\* at one of the two waterfall ends: |x| <= width / 2, z within 1.5 of
\* +length / 2 or of -length / 2
AtWaterfallEnd(x, z) ==
    /\ Abs(x) * 2 <= ToFoam(river.width)
    /\ \E side \in {1, -1} :
           Abs(z - side * (ToFoam(river.length) \div 2)) <= 30

\* a frame's effect on mist particle i: respawn with full life at an end,
\* or a loss of 0.015 of life and of 0.15 of height
MistFrame(i) ==
    IF mist.lives[i] - 15 <= 0
    THEN /\ mist'.lives[i] = 1000
         /\ AtWaterfallEnd(mist'.positions[3 * i - 2], mist'.positions[3 * i])
    ELSE /\ mist'.lives[i] = mist.lives[i] - 15
         /\ mist'.positions[3 * i - 1] = mist.positions[3 * i - 1] - 3
         /\ mist'.positions[3 * i] = mist.positions[3 * i]

\* C26: every mist particle loses 0.015 of life per frame whatever the flow
\* speed and flow angle, is respawned with life 1.0 at most 67 frames after
\* its previous respawn at one of the two waterfall ends, and between
\* respawns its y falls by 0.15 per frame.
C26_MistLifecycle ==
    /\ [](\A i \in DOMAIN mist.lives :
             MistShown(i) =>
                  /\ mist.lives[i] > 0
                  /\ mist.lives[i] = 1000 - 15 * MistAge(mist.lives[i])
                  /\ MistAge(mist.lives[i]) + 1 <= 67
                  /\ mist.positions[3 * i - 1] + 3 * MistAge(mist.lives[i])
                       \in -10..20)
    /\ [][last'.kind # "none" =>
             \A i \in DOMAIN mist.lives : MistFrame(i)]_vars

\* a particle in the last frame before its respawn, 66 frames after the
\* previous one, under a flow speed and direction changed through the GUI
C26_Witness ==
    /\ MistShown(1) /\ MistAge(mist.lives[1]) = 66
    /\ river.speed = 50 /\ river.flowAngle = 1
    /\ last.kind # "none"

\* the ground probe beneath the player's place at the start of the frame
GroundBefore == DownProbe(terrain, last.preX, last.preY + RayStartHeight)

\* C27: in every frame where the jump impulse is applied the player stood
\* on terrain at the start of the frame: there is ground beneath it and
\* position.y is the ground height + 0.1.
C27_JumpOnlyOnGround ==
    last.jumped => /\ GroundBefore.hit
                   /\ last.preY = GroundBefore.y + SnapEps

\* the ground probe beneath the player, from the height the code probes from
GroundBelow == DownProbe(terrain, px, py + RayStartHeight)

\* C28: at every frame boundary a positive verticalVelocity implies the
\* grounded flag is clear, and a set grounded flag implies verticalVelocity
\* is zero and position.y is the ground height beneath the player + 0.1.
C28_GroundedConsistent ==
    last.kind # "none" =>
        /\ verticalVelocity > 0 => ~isGrounded
        /\ isGrounded => /\ verticalVelocity = 0
                         /\ GroundBelow.hit
                         /\ py = GroundBelow.y + SnapEps

\* the heights of the terrain beneath the player's final place, probed from
\* above its feet and from high above
GroundsBeneath ==
    { DownProbe(terrain, px, y0).y :
        y0 \in { y1 \in {py + RayStartHeight, HighRayY} :
                   DownProbe(terrain, px, y1).hit } }

\* C29: after every frame in which the ground probe hit, lastGroundHeight is
\* the terrain height beneath the player's final place of that frame, also
\* when the move was reverted.
C29_LastGroundTracks ==
    (Resolved /\ last.hit) => lastGroundHeight \in GroundsBeneath

\* C30: after any sequence of changes of waterHeight, waterX, waterZ, width,
\* length and waterfallDrop through their handlers each waterfall is centred
\* at waterX, the first at z = waterZ + length / 2 and the second at
\* z = waterZ - length / 2, as high as waterfallDrop, with its top edge at
\* waterHeight.
C30_WaterfallGeometry ==
    \A k \in DOMAIN waterfalls :
        /\ waterfalls[k].x = river.waterX
        /\ waterfalls[k].z = IF k = 1 THEN river.waterZ + river.length \div 2
                             ELSE river.waterZ - river.length \div 2
        /\ waterfalls[k].scaleY = river.waterfallDrop
        /\ waterfalls[k].y + waterfalls[k].scaleY \div 2 = river.waterHeight

====
